---- MODULE Spec2Model ----
(***************************************************************************)
(* Orders service of new-microservices-node-lesson: the retry executor     *)
(* (retryWithBackoff), the user-event consumer and its cache (userCache),  *)
(* the broker bootstrap, and the order-creation handler that validates a   *)
(* user id remotely and falls back to the cache.                           *)
(*                                                                         *)
(* Two versions of the orders service are in the repository:               *)
(*   "retry"  : services/orders-service/src/index.js (Prisma, retry)       *)
(*   "memory" : unnamed/part_000 lines 316-459 (in-memory Map, no retry)   *)
(* The users service (unnamed/part_000 lines 1-315) is modelled as far as  *)
(* it commits users and publishes their events.                            *)
(* unnamed/part_001 lines 1-226 is an earlier copy of the "retry" version  *)
(* with the same handlers.                                                  *)
(***************************************************************************)
EXTENDS Integers, Sequences, FiniteSets, TLC

VARIABLES version, userCache, settled, setup, amqp, consumers, req, orders, run, usersSvc

vars == <<version, userCache, settled, setup, amqp, consumers, req, orders, run, usersSvc>>

(***************************************************************************)
(* Bounds of the model.                                                    *)
(***************************************************************************)
NumReqs == 2
MaxOrders == 2
MaxRetries == 4

(***************************************************************************)
(* Program constants.                                                      *)
(***************************************************************************)
ValidateRetries == 3
ValidateInitialDelay == 500
SetupRetries == 5
SetupInitialDelay == 2000
UsersSetupRetries == 5
UsersSetupInitialDelay == 2000
JitterMs == 1000
BackoffFactor == 2
NetError == 0
Timeout == 1

Versions == {"retry", "memory"}
Ids == {"u1", "u2"}
Reqs == 1..NumReqs
\* the request slot served when requests are taken one at a time
Serial == {1}

ROUTING_KEY_USER_CREATED == "user.created"
ROUTING_KEY_USER_UPDATED == "user.updated"
ORDER_CREATED == "order.created"
ORDER_CANCELLED == "order.cancelled"
OtherKey == ORDER_CREATED
RoutingKeys == {ROUTING_KEY_USER_CREATED, ROUTING_KEY_USER_UPDATED, OtherKey}

(***************************************************************************)
(* Replies of GET <users>/<id>: an HTTP status, or the fetch promise       *)
(* rejecting (network error, or the abort of fetchWithTimeout).            *)
(***************************************************************************)
Replies == {200, 404, 500, 502, 503, 504, NetError, Timeout}

FetchRejects(reply) == reply \in {NetError, Timeout}

\* resp.ok of node-fetch: a status in 200..299
RespOk(reply) == reply >= 200 /\ reply <= 299

(***************************************************************************)
(* userCache: a JS Map, modelled as a set of <<key, value>> entries.       *)
(***************************************************************************)
MapHas(m, k) == \E e \in m : e[1] = k

\* mutant: the entry is added next to the one already stored under the key
MapSet_KeepsOld(m, k, d) == m \cup {<<k, d>>}

MapSet(m, k, d) == {e \in m : e[1] # k} \cup {<<k, d>>}

MapGet(m, k) == {e[2] : e \in {x \in m : x[1] = k}}

(***************************************************************************)
(* Message contents and JSON.parse(msg.content.toString()).                *)
(* kind "garbage": bytes that are no JSON text; "null": the text null;     *)
(* "noid": an object without an id field; "obj": an object with an id.     *)
(***************************************************************************)
Contents ==
  {[kind |-> "garbage", id |-> "-", v |-> 0], [kind |-> "null", id |-> "-", v |-> 0],
   [kind |-> "noid", id |-> "-", v |-> 1]}
  \cup {[kind |-> "obj", id |-> i, v |-> n] : i \in Ids, n \in 1..2}

Msgs == [content : Contents, routingKey : RoutingKeys]

CoreMsgs == {m \in Msgs : m.content.kind = "obj" /\ m.content.v = 1
                          /\ m.routingKey = ROUTING_KEY_USER_CREATED}

\* the result of JSON.parse: threw (SyntaxError), or the parsed value;
\* a missing id field reads as undefined
JSONparse(c) ==
  CASE c.kind = "garbage" -> [threw |-> TRUE, isNull |-> FALSE, id |-> "-", v |-> 0]
    [] c.kind = "null" -> [threw |-> FALSE, isNull |-> TRUE, id |-> "-", v |-> 0]
    [] c.kind = "noid" -> [threw |-> FALSE, isNull |-> FALSE, id |-> "undefined", v |-> c.v]
    [] OTHER -> [threw |-> FALSE, isNull |-> FALSE, id |-> c.id, v |-> c.v]

\* the value stored by userCache.set(data.id, data)
Snapshot(data) == [id |-> data.id, v |-> data.v]

IsUserKey(key) == key = ROUTING_KEY_USER_CREATED \/ key = ROUTING_KEY_USER_UPDATED

(***************************************************************************)
(* The body of the consume callback: the cache after the message and how   *)
(* the message was settled (ack(msg) calls, nack(msg, false, requeue)      *)
(* calls).                                                                 *)
(***************************************************************************)
\* mutant: the cache is written before the payload is known to parse, and
\* the message is acknowledged in a finally block
ConsumeRetry_AckInFinally(cache, m) ==
  LET data == JSONparse(m.content) IN
  IF data.threw
  THEN [cache |-> MapSet(cache, data.id, Snapshot(data)), ack |-> 1, nack |-> 1,
        requeue |-> FALSE]
  ELSE IF IsUserKey(m.routingKey) /\ ~data.isNull
       THEN [cache |-> MapSet(cache, data.id, Snapshot(data)), ack |-> 1, nack |-> 0,
             requeue |-> FALSE]
       ELSE [cache |-> cache, ack |-> 1, nack |-> 0, requeue |-> FALSE]

\* mutant: the catch block empties the cache before it rejects the message
ConsumeRetry_ClearsOnError(cache, m) ==
  LET data == JSONparse(m.content) IN
  IF data.threw THEN [cache |-> {}, ack |-> 0, nack |-> 1, requeue |-> FALSE]
  ELSE IF IsUserKey(m.routingKey)
       THEN IF data.isNull THEN [cache |-> {}, ack |-> 0, nack |-> 1, requeue |-> FALSE]
            ELSE [cache |-> MapSet(cache, data.id, Snapshot(data)), ack |-> 1, nack |-> 0,
                  requeue |-> FALSE]
       ELSE [cache |-> cache, ack |-> 1, nack |-> 0, requeue |-> FALSE]

\* mutant: a routing key the consumer does not know is treated as an error
ConsumeRetry_UnknownKeyRejected(cache, m) ==
  LET data == JSONparse(m.content) IN
  IF data.threw THEN [cache |-> cache, ack |-> 0, nack |-> 1, requeue |-> FALSE]
  ELSE IF IsUserKey(m.routingKey)
       THEN IF data.isNull THEN [cache |-> cache, ack |-> 0, nack |-> 1, requeue |-> FALSE]
            ELSE [cache |-> MapSet(cache, data.id, Snapshot(data)), ack |-> 1, nack |-> 0,
                  requeue |-> FALSE]
       ELSE [cache |-> cache, ack |-> 0, nack |-> 1, requeue |-> FALSE]

\* mutant: user.created for an id already in the cache is treated as an error
ConsumeRetry_DuplicateRejected(cache, m) ==
  LET data == JSONparse(m.content) IN
  IF data.threw THEN [cache |-> cache, ack |-> 0, nack |-> 1, requeue |-> FALSE]
  ELSE IF IsUserKey(m.routingKey)
       THEN IF data.isNull
               \/ (m.routingKey = ROUTING_KEY_USER_CREATED /\ MapHas(cache, data.id))
            THEN [cache |-> cache, ack |-> 0, nack |-> 1, requeue |-> FALSE]
            ELSE [cache |-> MapSet(cache, data.id, Snapshot(data)), ack |-> 1, nack |-> 0,
                  requeue |-> FALSE]
       ELSE [cache |-> cache, ack |-> 1, nack |-> 0, requeue |-> FALSE]

\* services/orders-service/src/index.js (and part_001): data.id throws a
\* TypeError when data is null
ConsumeRetry(cache, m) ==
  LET data == JSONparse(m.content) IN
  IF data.threw THEN [cache |-> cache, ack |-> 0, nack |-> 1, requeue |-> FALSE]
  ELSE IF IsUserKey(m.routingKey)
       THEN IF data.isNull THEN [cache |-> cache, ack |-> 0, nack |-> 1, requeue |-> FALSE]
            ELSE [cache |-> MapSet(cache, data.id, Snapshot(data)), ack |-> 1, nack |-> 0,
                  requeue |-> FALSE]
       ELSE [cache |-> cache, ack |-> 1, nack |-> 0, requeue |-> FALSE]

\* part_000: the parsed value is bound to `user`, the branches read the
\* undeclared `data`: ReferenceError, caught, nack
ConsumeMemory(cache, m) ==
  LET user == JSONparse(m.content) IN
  IF user.threw THEN [cache |-> cache, ack |-> 0, nack |-> 1, requeue |-> FALSE]
  ELSE IF IsUserKey(m.routingKey)
       THEN [cache |-> cache, ack |-> 0, nack |-> 1, requeue |-> FALSE]
       ELSE [cache |-> cache, ack |-> 1, nack |-> 0, requeue |-> FALSE]

ConsumeCallback(ver, cache, m) ==
  IF ver = "retry" THEN ConsumeRetry(cache, m) ELSE ConsumeMemory(cache, m)

\* the message slot before any delivery
NoMsg == [content |-> [kind |-> "none", id |-> "-", v |-> 0], routingKey |-> "-"]

\* ack, nack: calls of ch.ack(msg) and ch.nack(msg, false, requeue) made by
\* the callback; acked, rejected: the calls that went through; prev: the
\* message delivered before this one
NoDelivery == [msg |-> NoMsg, ack |-> 0, nack |-> 0, requeue |-> FALSE,
               acked |-> FALSE, rejected |-> FALSE, prev |-> NoMsg]

\* ch.ack(msg) is the last statement of the try block: when it throws, the
\* catch block calls ch.nack(msg, false, false) on the same message; a
\* throw of ch.nack leaves the callback as an uncaught exception
ChannelSettle(r, ackThrows, nackThrows) ==
  LET nackCalls == IF r.ack = 1 /\ ackThrows THEN 1 ELSE r.nack IN
  [ack |-> r.ack, nack |-> nackCalls, requeue |-> r.requeue,
   acked |-> (r.ack = 1 /\ ~ackThrows),
   rejected |-> (nackCalls = 1 /\ ~nackThrows)]

(***************************************************************************)
(* retryWithBackoff: the state of one execution and its steps.             *)
(***************************************************************************)
RetryIdle ==
  [pc |-> "idle", retries |-> 0, initialDelay |-> 0, attempt |-> 0, delay |-> 0,
   waitTime |-> 0, calls |-> 0, waits |-> 0, value |-> 0]

\* fn may settle with null or undefined; `err.message` of such a rejection
\* throws a TypeError, which is what the run then rejects with
Nullish == -1
TypeErrorValue == -2

\* let attempt = 1; let delay = initialDelay; and the first call of fn
RetryStart(retries, initialDelay) ==
  [RetryIdle EXCEPT !.pc = "calling", !.retries = retries,
                    !.initialDelay = initialDelay, !.attempt = 1, !.delay = initialDelay,
                    !.calls = 1]

\* mutant: a bare `return;` on success, the value of fn is dropped
RetrySettle_DropsValue(st, out, jitter) ==
  IF ~out.threw
  THEN [st EXCEPT !.pc = "returned", !.value = 0]
  ELSE IF out.v = Nullish
  THEN [st EXCEPT !.pc = "thrown", !.value = TypeErrorValue]
  ELSE IF st.attempt = st.retries
       THEN [st EXCEPT !.pc = "thrown", !.value = out.v]
       ELSE [st EXCEPT !.pc = "sleeping", !.waitTime = st.delay + jitter,
                       !.waits = @ + 1]

\* mutant: the backoff sleep is taken before the attempt limit is tested,
\* so the final failure is followed by a wait as well
RetrySettle_WaitsAfterLastFailure(st, out, jitter) ==
  IF ~out.threw
  THEN [st EXCEPT !.pc = "returned", !.value = out.v]
  ELSE IF out.v = Nullish
  THEN [st EXCEPT !.pc = "thrown", !.value = TypeErrorValue]
  ELSE IF st.attempt = st.retries
       THEN [st EXCEPT !.pc = "thrown", !.value = out.v, !.waitTime = st.delay + jitter,
                       !.waits = @ + 1]
       ELSE [st EXCEPT !.pc = "sleeping", !.waitTime = st.delay + jitter,
                       !.waits = @ + 1]

\* mutant: the loop does not return on success below the attempt limit
RetrySettle_RetriesAfterSuccess(st, out, jitter) ==
  IF ~out.threw /\ st.attempt >= 2
  THEN [st EXCEPT !.pc = "returned", !.value = out.v]
  ELSE IF out.threw /\ out.v = Nullish
  THEN [st EXCEPT !.pc = "thrown", !.value = TypeErrorValue]
  ELSE IF st.attempt = st.retries
       THEN [st EXCEPT !.pc = IF out.threw THEN "thrown" ELSE "returned", !.value = out.v]
       ELSE [st EXCEPT !.pc = "sleeping", !.waitTime = st.delay + jitter,
                       !.waits = @ + 1]

\* await fn() settles: out = [threw, v]. A value is returned at once. The
\* catch block first reads err.message for its log line, which throws out
\* of the loop when err is null or undefined; then a failure on the last
\* attempt is rethrown; otherwise sleep(delay + jitter)
RetrySettle(st, out, jitter) ==
  IF ~out.threw
  THEN [st EXCEPT !.pc = "returned", !.value = out.v]
  ELSE IF out.v = Nullish
  THEN [st EXCEPT !.pc = "thrown", !.value = TypeErrorValue]
  ELSE IF st.attempt = st.retries
       THEN [st EXCEPT !.pc = "thrown", !.value = out.v]
       ELSE [st EXCEPT !.pc = "sleeping", !.waitTime = st.delay + jitter,
                       !.waits = @ + 1]

\* mutant: the delay is not doubled
RetryWake_NoBackoff(st) ==
  [st EXCEPT !.pc = "calling", !.attempt = @ + 1, !.calls = @ + 1, !.waitTime = 0]

\* sleep(waitTime) resolves: delay *= 2; attempt++; the loop calls fn again
\* (waitTime is scoped to the catch block and is gone by then)
RetryWake(st) ==
  [st EXCEPT !.pc = "calling", !.delay = @ * BackoffFactor, !.attempt = @ + 1,
             !.calls = @ + 1, !.waitTime = 0]

\* Math.random() * 1000 lies in [0, 1000): sampled in whole milliseconds
Jitters == {0, 1, JitterMs \div 2, JitterMs - 1}
JitterEdges == {0, JitterMs - 1}

(***************************************************************************)
(* validateUserHttp: the outcome of one remote check.                      *)
(***************************************************************************)
\* mutant: throws on every non-ok response, 404 included
validateUserHttp_ThrowsOnAnyNonOk(reply) ==
  [threw |-> FetchRejects(reply) \/ ~RespOk(reply), v |-> reply]

\* mutant: the abort of the timeout is swallowed and handed back as an answer
validateUserHttp_TimeoutIsAnswer(reply) ==
  [threw |-> reply = NetError
             \/ (~RespOk(reply) /\ (reply = 503 \/ reply = 504 \/ reply = 502)),
   v |-> reply]

validateUserHttp(reply) ==
  [threw |-> FetchRejects(reply)
             \/ (~RespOk(reply) /\ (reply = 503 \/ reply = 504 \/ reply = 502)),
   v |-> reply]

(***************************************************************************)
(* Publishing an event: try { if (amqp?.ch) { amqp.ch.publish(...) } }     *)
(* catch (err) { log }.  ch: amqp?.ch was truthy; calls: calls of          *)
(* ch.publish; threw: the call threw; key, payload: what was handed to     *)
(* ch.publish; escaped: the exception left the try block.                  *)
(***************************************************************************)
NoPublish == [ch |-> FALSE, calls |-> 0, threw |-> FALSE, key |-> "none",
              payload |-> <<>>, escaped |-> FALSE]

\* mutant: the guard `if (amqp?.ch)` is missing: without a channel
\* amqp.ch.publish throws a TypeError, which the catch logs
TryPublish_ThrowsWithoutChannel(chan, pubThrows, key, snapshot) ==
  IF chan = "conn"
  THEN [ch |-> TRUE, calls |-> 1, threw |-> pubThrows, key |-> key,
        payload |-> <<snapshot>>, escaped |-> FALSE]
  ELSE [NoPublish EXCEPT !.threw = TRUE]

\* mutant: the publish is not wrapped in its own try/catch
TryPublish_NoCatch(chan, pubThrows, key, snapshot) ==
  IF chan = "conn"
  THEN [ch |-> TRUE, calls |-> 1, threw |-> pubThrows, key |-> key,
        payload |-> <<snapshot>>, escaped |-> pubThrows]
  ELSE NoPublish

TryPublish(chan, pubThrows, key, snapshot) ==
  IF chan = "conn"
  THEN [ch |-> TRUE, calls |-> 1, threw |-> pubThrows, key |-> key,
        payload |-> <<snapshot>>, escaped |-> FALSE]
  ELSE NoPublish

(***************************************************************************)
(* Requests of POST /.                                                     *)
(***************************************************************************)
\* calls: remote checks issued; hist: the replies received, in order;
\* lookup: the result of userCache.has(userId) when the fallback read it
\* kind: "post" (POST /) or "patch" (PATCH /:id); target: the order PATCH
\* names; pub: what the handler did about its event; early: whether the
\* cache held userId when the first remote check failed (the handler does
\* not read it then); prior: the status PATCH found on its order
ReqIdle == [pc |-> "idle", kind |-> "none", userId |-> "-", rx |-> RetryIdle, calls |-> 0,
            hist |-> <<>>, lookup |-> "none", outcome |-> "none", http |-> 0,
            target |-> 0, pub |-> NoPublish, early |-> "none", prior |-> "none"]

InFlight == Cardinality({r \in Reqs : req[r].pc \in {"validating", "creating"}})

NewOrder(userId, outcome) == [userId |-> userId, status |-> "created", validation |-> outcome]

\* mutant: PATCH flips the status instead of setting it
Cancelled_Toggles(order) ==
  [order EXCEPT !.status = IF @ = "created" THEN "cancelled" ELSE "created"]

\* data: { status: 'cancelled' } / order.status = 'cancelled'
Cancelled(order) == [order EXCEPT !.status = "cancelled"]

RunIdle == [rx |-> RetryIdle, fnLast |-> [threw |-> FALSE, v |-> 0]]

(***************************************************************************)
(* The users service: its broker connection, its table of users (a set of  *)
(* <<id, user>> entries) and the last POST / or PATCH /:id it served.      *)
(***************************************************************************)
UsersNoOp == [kind |-> "none", id |-> "-", http |-> 0, committed |-> FALSE,
              pub |-> NoPublish]

UsersInit ==
  [setup |-> RetryStart(UsersSetupRetries, UsersSetupInitialDelay), amqp |-> "null",
   db |-> {}, last |-> UsersNoOp]

Init ==
  /\ version \in Versions
  /\ userCache = {}
  /\ settled = NoDelivery
  /\ setup = IF version = "retry" THEN RetryStart(SetupRetries, SetupInitialDelay)
             ELSE [RetryIdle EXCEPT !.pc = "calling"]
  /\ amqp = "null"
  /\ consumers = 0
  /\ req = [r \in Reqs |-> ReqIdle]
  /\ orders = <<>>
  /\ run = RunIdle
  /\ usersSvc = UsersInit

(***************************************************************************)
(* Broker bootstrap.  Retry version: one action per attempt of setupAmqp,   *)
(* whose awaits before consume() change nothing the rest of the program    *)
(* reads. Memory version: one action per await, since amqp is assigned     *)
(* after the first of them.                                                *)
(***************************************************************************)
SetupStages == {"createChannel", "assertQueue", "bindQueue", "ok"}

StageCode(stage) ==
  CASE stage = "createChannel" -> 1 [] stage = "assertQueue" -> 2
    [] stage = "bindQueue" -> 3 [] OTHER -> 0

\* mutant: ch.consume is called before the queue is bound, so an attempt
\* that fails in bindQueue has already registered a consumer
SetupAttempt_ConsumeBeforeBind(stage, jitter) ==
  /\ version = "retry"
  /\ setup.pc = "calling"
  /\ setup' = RetrySettle(setup, [threw |-> stage # "ok", v |-> StageCode(stage)], jitter)
  /\ consumers' = IF stage \in {"ok", "bindQueue"} THEN consumers + 1 ELSE consumers
  /\ amqp' = IF stage = "ok" THEN "conn" ELSE amqp
  /\ UNCHANGED <<usersSvc, version, userCache, settled, req, orders, run>>

\* retry version: amqp = await retryWithBackoff(setupAmqp, 5, 2000, ...)
SetupAttempt(stage, jitter) ==
  /\ version = "retry"
  /\ setup.pc = "calling"
  /\ setup' = RetrySettle(setup, [threw |-> stage # "ok", v |-> StageCode(stage)], jitter)
  /\ consumers' = IF stage = "ok" THEN consumers + 1 ELSE consumers
  /\ amqp' = IF stage = "ok" THEN "conn" ELSE amqp
  /\ UNCHANGED <<usersSvc, version, userCache, settled, req, orders, run>>

SetupWake ==
  /\ version = "retry"
  /\ setup.pc = "sleeping"
  /\ setup' = RetryWake(setup)
  /\ UNCHANGED <<usersSvc, version, userCache, settled, amqp, consumers, req, orders, run>>

\* memory version: one attempt. amqp = await createChannel(...) settles:
\* amqp is assigned at once, and the bootstrap goes on to await assertQueue
SetupMemory(ok) ==
  /\ version = "memory"
  /\ setup.pc = "calling"
  /\ setup' = IF ok THEN [setup EXCEPT !.pc = "assertQueue"]
               ELSE [setup EXCEPT !.pc = "thrown", !.value = StageCode("createChannel")]
  /\ amqp' = IF ok THEN "conn" ELSE amqp
  /\ UNCHANGED <<usersSvc, version, userCache, settled, consumers, req, orders, run>>

\* the awaits between the assignment of amqp and ch.consume, in order
MemoryAwaits == <<"assertQueue", "bindCreated", "bindUpdated">>

AwaitIndex(pc) == CHOOSE i \in 1..Len(MemoryAwaits) : MemoryAwaits[i] = pc

\* memory version: await assertQueue / bindQueue / bindQueue settles; after
\* the last one ch.consume registers the consumer; a rejection is caught
\* and logged, amqp keeps the channel
SetupMemoryStep(ok) ==
  /\ version = "memory"
  /\ \E i \in 1..Len(MemoryAwaits) : setup.pc = MemoryAwaits[i]
  /\ LET i == AwaitIndex(setup.pc) IN
       /\ setup' = IF ~ok
                    THEN [setup EXCEPT !.pc = "thrown",
                            !.value = IF i = 1 THEN StageCode("assertQueue")
                                      ELSE StageCode("bindQueue")]
                    ELSE IF i < Len(MemoryAwaits)
                         THEN [setup EXCEPT !.pc = MemoryAwaits[i + 1]]
                         ELSE [setup EXCEPT !.pc = "returned"]
       /\ consumers' = IF ok /\ i = Len(MemoryAwaits) THEN consumers + 1 ELSE consumers
  /\ UNCHANGED <<usersSvc, version, userCache, settled, amqp, req, orders, run>>

(***************************************************************************)
(* The broker delivers message m to the registered consumer.               *)
(***************************************************************************)
Deliver(m, ackThrows, nackThrows) ==
  /\ consumers > 0
  /\ LET r == ConsumeCallback(version, userCache, m)
         s == ChannelSettle(r, ackThrows, nackThrows)
     IN /\ userCache' = r.cache
        /\ settled' = [msg |-> m, ack |-> s.ack, nack |-> s.nack, requeue |-> s.requeue,
                       acked |-> s.acked, rejected |-> s.rejected, prev |-> settled.msg]
  /\ UNCHANGED <<usersSvc, version, setup, amqp, consumers, req, orders, run>>

\* a delivery on a healthy channel: ch.ack and ch.nack do not throw
Consume(m) == Deliver(m, FALSE, FALSE)

\* a delivery on a channel whose ack or nack throws (channel closed)
ConsumeChannelFails(m, ackThrows, nackThrows) ==
  /\ ackThrows \/ nackThrows
  /\ Deliver(m, ackThrows, nackThrows)

(***************************************************************************)
(* POST / of the orders service.                                           *)
(***************************************************************************)
\* the handler up to its first await
PostOrder(r, userId, wellFormed) ==
  /\ req[r].pc = "idle"
  /\ Len(orders) + InFlight < MaxOrders
  /\ req' = [req EXCEPT ![r] =
       IF ~wellFormed
       THEN [ReqIdle EXCEPT !.pc = "done", !.kind = "post", !.userId = userId,
                            !.outcome = "rejected", !.http = 400]
       ELSE [ReqIdle EXCEPT !.pc = "validating", !.kind = "post", !.userId = userId,
                            !.calls = 1,
                            !.rx = IF version = "retry"
                                   THEN RetryStart(ValidateRetries, ValidateInitialDelay)
                                   ELSE RetryIdle]]
  /\ UNCHANGED <<usersSvc, version, userCache, settled, setup, amqp, consumers, orders, run>>

\* mutant: the 503 branch of the fallback lacks its return
AfterRetry_MissProceeds(q, cache) ==
  CASE q.rx.pc = "returned" ->
         IF ~RespOk(q.rx.value)
         THEN [q EXCEPT !.pc = "done", !.outcome = "Invalid", !.http = 400]
         ELSE [q EXCEPT !.pc = "creating", !.outcome = "Valid"]
    [] q.rx.pc = "thrown" ->
         IF ~MapHas(cache, q.userId)
         THEN [q EXCEPT !.pc = "creating", !.outcome = "Unavailable", !.http = 503,
                        !.lookup = "miss"]
         ELSE [q EXCEPT !.pc = "creating", !.outcome = "Valid", !.lookup = "hit"]
    [] OTHER -> q

\* mutant: the cache is consulted before the answer is looked at
AfterRetry_CacheFirst(q, cache) ==
  IF q.rx.pc \in {"returned", "thrown"} /\ MapHas(cache, q.userId)
  THEN [q EXCEPT !.pc = "creating", !.outcome = "Valid", !.lookup = "hit"]
  ELSE CASE q.rx.pc = "returned" ->
              IF ~RespOk(q.rx.value)
              THEN [q EXCEPT !.pc = "done", !.outcome = "Invalid", !.http = 400]
              ELSE [q EXCEPT !.pc = "creating", !.outcome = "Valid"]
         [] q.rx.pc = "thrown" ->
              [q EXCEPT !.pc = "done", !.outcome = "Unavailable", !.http = 503,
                        !.lookup = "miss"]
         [] OTHER -> q

\* mutant: the cache is looked up when the first attempt fails and the
\* answer is kept for the fallback
AfterRetry_EarlyLookup(q, cache) ==
  CASE q.rx.pc = "returned" ->
         IF ~RespOk(q.rx.value)
         THEN [q EXCEPT !.pc = "done", !.outcome = "Invalid", !.http = 400]
         ELSE [q EXCEPT !.pc = "creating", !.outcome = "Valid"]
    [] q.rx.pc = "thrown" ->
         IF q.early # "hit"
         THEN [q EXCEPT !.pc = "done", !.outcome = "Unavailable", !.http = 503,
                        !.lookup = "miss"]
         ELSE [q EXCEPT !.pc = "creating", !.outcome = "Valid", !.lookup = "hit"]
    [] OTHER -> q

\* mutant: the 400 branch lacks its return
AfterRetry_InvalidProceeds(q, cache) ==
  CASE q.rx.pc = "returned" ->
         IF ~RespOk(q.rx.value)
         THEN [q EXCEPT !.pc = "creating", !.outcome = "Invalid", !.http = 400]
         ELSE [q EXCEPT !.pc = "creating", !.outcome = "Valid"]
    [] q.rx.pc = "thrown" ->
         IF ~MapHas(cache, q.userId)
         THEN [q EXCEPT !.pc = "done", !.outcome = "Unavailable", !.http = 503,
                        !.lookup = "miss"]
         ELSE [q EXCEPT !.pc = "creating", !.outcome = "Valid", !.lookup = "hit"]
    [] OTHER -> q

\* mutant: a cache miss is answered 400 like an invalid user
AfterRetry_MissAs400(q, cache) ==
  CASE q.rx.pc = "returned" ->
         IF ~RespOk(q.rx.value)
         THEN [q EXCEPT !.pc = "done", !.outcome = "Invalid", !.http = 400]
         ELSE [q EXCEPT !.pc = "creating", !.outcome = "Valid"]
    [] q.rx.pc = "thrown" ->
         IF ~MapHas(cache, q.userId)
         THEN [q EXCEPT !.pc = "done", !.outcome = "Invalid", !.http = 400,
                        !.lookup = "miss"]
         ELSE [q EXCEPT !.pc = "creating", !.outcome = "Valid", !.lookup = "hit"]
    [] OTHER -> q

\* what the handler does once retryWithBackoff has settled (lines 243-256)
AfterRetry(q, cache) ==
  CASE q.rx.pc = "returned" ->
         IF ~RespOk(q.rx.value)
         THEN [q EXCEPT !.pc = "done", !.outcome = "Invalid", !.http = 400]
         ELSE [q EXCEPT !.pc = "creating", !.outcome = "Valid"]
    [] q.rx.pc = "thrown" ->
         IF ~MapHas(cache, q.userId)
         THEN [q EXCEPT !.pc = "done", !.outcome = "Unavailable", !.http = 503,
                        !.lookup = "miss"]
         ELSE [q EXCEPT !.pc = "creating", !.outcome = "Valid", !.lookup = "hit"]
    [] OTHER -> q

\* a remote check settles (retry version)
RemoteReply(r, reply, jitter) ==
  /\ version = "retry"
  /\ req[r].pc = "validating"
  /\ req[r].rx.pc = "calling"
  /\ req' = [req EXCEPT ![r] =
       AfterRetry([req[r] EXCEPT !.rx = RetrySettle(@, validateUserHttp(reply), jitter),
                                 !.hist = Append(@, reply),
                                 !.early = IF Len(req[r].hist) = 0
                                              /\ validateUserHttp(reply).threw
                                           THEN IF MapHas(userCache, req[r].userId)
                                                THEN "hit" ELSE "miss"
                                           ELSE @], userCache)]
  /\ UNCHANGED <<usersSvc, version, userCache, settled, setup, amqp, consumers, orders, run>>

\* mutant: attempt and delay are module-level variables shared by all runs
RequestWake_SharedCounter(r) ==
  /\ version = "retry"
  /\ req[r].pc = "validating"
  /\ req[r].rx.pc = "sleeping"
  /\ req' = [q \in Reqs |->
       IF q = r THEN [req[q] EXCEPT !.rx = RetryWake(@), !.calls = @ + 1]
       ELSE IF req[q].pc = "validating"
            THEN [req[q] EXCEPT !.rx.attempt = @ + 1, !.rx.delay = @ * BackoffFactor]
            ELSE req[q]]
  /\ UNCHANGED <<usersSvc, version, userCache, settled, setup, amqp, consumers, orders, run>>

\* the retry delay of a request elapses and the next remote check is issued
RequestWake(r) ==
  /\ version = "retry"
  /\ req[r].pc = "validating"
  /\ req[r].rx.pc = "sleeping"
  /\ req' = [req EXCEPT ![r].rx = RetryWake(@), ![r].calls = @ + 1]
  /\ UNCHANGED <<usersSvc, version, userCache, settled, setup, amqp, consumers, orders, run>>

\* mutant: a validated user is written through to the cache on creation
CreateOrder_CachesUser(r, dbOk) ==
  /\ version = "retry"
  /\ req[r].pc = "creating"
  /\ orders' = IF dbOk THEN Append(orders, NewOrder(req[r].userId, req[r].outcome))
               ELSE orders
  /\ req' = [req EXCEPT ![r].pc = "done", ![r].http = IF dbOk THEN 201 ELSE 500]
  /\ userCache' = IF dbOk THEN MapSet(userCache, req[r].userId,
                                      [id |-> req[r].userId, v |-> 1])
                  ELSE userCache
  /\ UNCHANGED <<usersSvc, version, settled, setup, amqp, consumers, run>>

\* prisma.order.create settles (retry version); the handler publishes
\* nothing (index.js:269 is a comment)
CreateOrder(r, dbOk) ==
  /\ version = "retry"
  /\ req[r].pc = "creating"
  /\ orders' = IF dbOk THEN Append(orders, NewOrder(req[r].userId, req[r].outcome))
               ELSE orders
  /\ req' = [req EXCEPT ![r].pc = "done", ![r].http = IF dbOk THEN 201 ELSE 500]
  /\ UNCHANGED <<usersSvc, version, userCache, settled, setup, amqp, consumers, run>>

\* memory version: what the handler decides from its single remote check
DecideMemory(q, reply, cache) ==
  IF FetchRejects(reply)
  THEN IF ~MapHas(cache, q.userId)
       THEN [q EXCEPT !.pc = "done", !.outcome = "Unavailable", !.http = 503,
                      !.lookup = "miss", !.hist = Append(@, reply)]
       ELSE [q EXCEPT !.pc = "done", !.outcome = "Valid", !.http = 201,
                      !.lookup = "hit", !.hist = Append(@, reply)]
  ELSE IF ~RespOk(reply)
       THEN [q EXCEPT !.pc = "done", !.outcome = "Invalid", !.http = 400, !.hist = Append(@, reply)]
       ELSE [q EXCEPT !.pc = "done", !.outcome = "Valid", !.http = 201, !.hist = Append(@, reply)]

\* memory version: the single remote check settles; orders.set, the publish
\* of order.created and the response follow without an await
FetchReplyMemory(r, reply, pubThrows) ==
  /\ version = "memory"
  /\ req[r].pc = "validating"
  /\ LET q == DecideMemory(req[r], reply, userCache)
         order == NewOrder(q.userId, q.outcome)
         p == TryPublish(amqp, pubThrows, ORDER_CREATED, order)
     IN IF q.http = 201
        THEN /\ orders' = Append(orders, order)
             /\ req' = [req EXCEPT ![r] = [q EXCEPT !.pub = p,
                                                    !.http = IF p.escaped THEN 0 ELSE 201]]
        ELSE /\ orders' = orders
             /\ req' = [req EXCEPT ![r] = q]
  /\ UNCHANGED <<usersSvc, version, userCache, settled, setup, amqp, consumers, run>>

(***************************************************************************)
(* PATCH /:id of the orders service: cancel order number id.               *)
(***************************************************************************)
\* retry version: the handler up to await prisma.order.update
PatchOrder(r, id) ==
  /\ version = "retry"
  /\ req[r].pc = "idle"
  /\ req' = [req EXCEPT ![r] = [ReqIdle EXCEPT !.pc = "updating", !.kind = "patch",
                                               !.target = id]]
  /\ UNCHANGED <<usersSvc, version, userCache, settled, setup, amqp, consumers, orders, run>>

\* mutant: the event is published before prisma.order.update is awaited
PatchSettle_PublishesFirst(r, dbOk, pubThrows) ==
  /\ version = "retry"
  /\ req[r].pc = "updating"
  /\ LET t == req[r].target
         p == TryPublish(amqp, pubThrows, ORDER_CANCELLED,
                         [userId |-> "-", status |-> "cancelled", validation |-> "-"])
     IN IF ~dbOk
        THEN /\ orders' = orders
             /\ req' = [req EXCEPT ![r].pc = "done", ![r].http = 500, ![r].pub = p]
        ELSE IF t \notin 1..Len(orders)
             THEN /\ orders' = orders
                  /\ req' = [req EXCEPT ![r].pc = "done", ![r].http = 404, ![r].pub = p]
             ELSE /\ orders' = [orders EXCEPT ![t] = Cancelled(orders[t])]
                  /\ req' = [req EXCEPT ![r].pc = "done", ![r].pub = p,
                                        ![r].prior = orders[t].status, ![r].http = 200]
  /\ UNCHANGED <<usersSvc, version, userCache, settled, setup, amqp, consumers, run>>

\* mutant: an order that is already cancelled is answered without an event
PatchSettle_SkipsWhenCancelled(r, dbOk, pubThrows) ==
  /\ version = "retry"
  /\ req[r].pc = "updating"
  /\ LET t == req[r].target IN
     IF ~dbOk
     THEN /\ orders' = orders
          /\ req' = [req EXCEPT ![r].pc = "done", ![r].http = 500]
     ELSE IF t \notin 1..Len(orders)
          THEN /\ orders' = orders
               /\ req' = [req EXCEPT ![r].pc = "done", ![r].http = 404]
          ELSE LET order == Cancelled(orders[t])
                   p == IF orders[t].status = "cancelled" THEN NoPublish
                        ELSE TryPublish(amqp, pubThrows, ORDER_CANCELLED, order)
               IN /\ orders' = [orders EXCEPT ![t] = order]
                  /\ req' = [req EXCEPT ![r].pc = "done", ![r].pub = p,
                                        ![r].prior = orders[t].status, ![r].http = 200]
  /\ UNCHANGED <<usersSvc, version, userCache, settled, setup, amqp, consumers, run>>

\* retry version: prisma.order.update settles: P2025 (no such order) -> 404,
\* another error -> 500, else the publish of order.cancelled and 200
PatchSettle(r, dbOk, pubThrows) ==
  /\ version = "retry"
  /\ req[r].pc = "updating"
  /\ LET t == req[r].target IN
     IF ~dbOk
     THEN /\ orders' = orders
          /\ req' = [req EXCEPT ![r].pc = "done", ![r].http = 500]
     ELSE IF t \notin 1..Len(orders)
          THEN /\ orders' = orders
               /\ req' = [req EXCEPT ![r].pc = "done", ![r].http = 404]
          ELSE LET order == Cancelled(orders[t])
                   p == TryPublish(amqp, pubThrows, ORDER_CANCELLED, order)
               IN /\ orders' = [orders EXCEPT ![t] = order]
                  /\ req' = [req EXCEPT ![r].pc = "done", ![r].pub = p,
                                        ![r].prior = orders[t].status,
                                        ![r].http = IF p.escaped THEN 500 ELSE 200]
  /\ UNCHANGED <<usersSvc, version, userCache, settled, setup, amqp, consumers, run>>

\* memory version: the whole handler runs without an await
PatchMemory(r, id, pubThrows) ==
  /\ version = "memory"
  /\ req[r].pc = "idle"
  /\ LET q == [ReqIdle EXCEPT !.pc = "done", !.kind = "patch", !.target = id] IN
     IF id \notin 1..Len(orders)
     THEN /\ orders' = orders
          /\ req' = [req EXCEPT ![r] = [q EXCEPT !.http = 404]]
     ELSE LET order == Cancelled(orders[id])
              p == TryPublish(amqp, pubThrows, ORDER_CANCELLED, order)
          IN /\ orders' = [orders EXCEPT ![id] = order]
             /\ req' = [req EXCEPT ![r] = [q EXCEPT !.pub = p,
                                                    !.prior = orders[id].status,
                                                    !.http = IF p.escaped THEN 0 ELSE 200]]
  /\ UNCHANGED <<usersSvc, version, userCache, settled, setup, amqp, consumers, run>>

\* the response has been sent; the slot serves the next request
Finish(r) ==
  /\ req[r].pc = "done"
  /\ req' = [req EXCEPT ![r] = ReqIdle]
  /\ UNCHANGED <<usersSvc, version, userCache, settled, setup, amqp, consumers, orders, run>>

(***************************************************************************)
(* The users service.                                                      *)
(***************************************************************************)
\* amqp = await retryWithBackoff(connectToAmqp, 5, 2000, ...)
UsersSetupAttempt(ok, jitter) ==
  /\ usersSvc.setup.pc = "calling"
  /\ usersSvc' = [usersSvc EXCEPT
       !.setup = RetrySettle(@, [threw |-> ~ok, v |-> IF ok THEN 0 ELSE 1], jitter),
       !.amqp = IF ok THEN "conn" ELSE @]
  /\ UNCHANGED <<version, userCache, settled, setup, amqp, consumers, req, orders, run>>

UsersSetupWake ==
  /\ usersSvc.setup.pc = "sleeping"
  /\ usersSvc' = [usersSvc EXCEPT !.setup = RetryWake(@)]
  /\ UNCHANGED <<version, userCache, settled, setup, amqp, consumers, req, orders, run>>

\* POST /: prisma.user.create gives the new user the id `id`; 201 is sent
\* before the publish of user.created. db: "ok", "P2002" (unique
\* constraint), "error"
UsersPost(id, wellFormed, db, pubThrows) ==
  /\ db = "ok" => ~MapHas(usersSvc.db, id)
  /\ db = "P2002" => usersSvc.db # {}
  /\ LET user == [id |-> id, v |-> 1]
         op == [UsersNoOp EXCEPT !.kind = "create", !.id = id]
     IN usersSvc' =
          IF ~wellFormed THEN [usersSvc EXCEPT !.last = [op EXCEPT !.http = 400]]
          ELSE IF db = "ok"
               THEN [usersSvc EXCEPT
                       !.db = MapSet(@, id, user),
                       !.last = [op EXCEPT !.http = 201, !.committed = TRUE,
                                           !.pub = TryPublish(usersSvc.amqp, pubThrows,
                                                              ROUTING_KEY_USER_CREATED, user)]]
               ELSE [usersSvc EXCEPT
                       !.last = [op EXCEPT !.http = IF db = "P2002" THEN 400 ELSE 500]]
  /\ UNCHANGED <<version, userCache, settled, setup, amqp, consumers, req, orders, run>>

\* PATCH /:id: prisma.user.update; P2025 (no such user) -> 404, another
\* error -> 500, else the publish of user.updated and then 200
UsersPatch(id, v, dbOk, pubThrows) ==
  /\ LET user == [id |-> id, v |-> v]
         op == [UsersNoOp EXCEPT !.kind = "update", !.id = id]
         p == TryPublish(usersSvc.amqp, pubThrows, ROUTING_KEY_USER_UPDATED, user)
     IN usersSvc' =
          IF ~dbOk THEN [usersSvc EXCEPT !.last = [op EXCEPT !.http = 500]]
          ELSE IF ~MapHas(usersSvc.db, id)
               THEN [usersSvc EXCEPT !.last = [op EXCEPT !.http = 404]]
               ELSE [usersSvc EXCEPT
                       !.db = MapSet(@, id, user),
                       !.last = [op EXCEPT !.http = IF p.escaped THEN 500 ELSE 200,
                                           !.committed = TRUE, !.pub = p]]
  /\ UNCHANGED <<version, userCache, settled, setup, amqp, consumers, req, orders, run>>

(***************************************************************************)
(* retryWithBackoff on its own, for any policy and any operation.          *)
(***************************************************************************)
BaseDelays == {1, ValidateInitialDelay, SetupInitialDelay}
FnValues == {7, 8, Nullish}

RunStart(retries, initialDelay) ==
  /\ run.rx.pc = "idle"
  /\ run' = [RunIdle EXCEPT !.rx = RetryStart(retries, initialDelay)]
  /\ UNCHANGED <<usersSvc, version, userCache, settled, setup, amqp, consumers, req, orders>>

RunSettle(out, jitter) ==
  /\ run.rx.pc = "calling"
  /\ run' = [rx |-> RetrySettle(run.rx, out, jitter), fnLast |-> out]
  /\ UNCHANGED <<usersSvc, version, userCache, settled, setup, amqp, consumers, req, orders>>

RunWake ==
  /\ run.rx.pc = "sleeping"
  /\ run' = [run EXCEPT !.rx = RetryWake(@)]
  /\ UNCHANGED <<usersSvc, version, userCache, settled, setup, amqp, consumers, req, orders>>

(***************************************************************************)
(* Specifications.                                                         *)
(***************************************************************************)
Next ==
  \/ \E stage \in SetupStages, jitter \in JitterEdges : SetupAttempt(stage, jitter)
  \/ SetupWake
  \/ \E ok \in BOOLEAN : SetupMemory(ok)
  \/ \E ok \in BOOLEAN : SetupMemoryStep(ok)
  \/ \E m \in CoreMsgs : Consume(m)
  \/ \E r \in Serial, userId \in Ids, wellFormed \in BOOLEAN : PostOrder(r, userId, wellFormed)
  \/ \E r \in Serial, reply \in Replies, jitter \in JitterEdges : RemoteReply(r, reply, jitter)
  \/ \E r \in Serial : RequestWake(r)
  \/ \E r \in Serial, dbOk \in BOOLEAN : CreateOrder(r, dbOk)
  \/ \E r \in Serial, reply \in Replies, pubThrows \in BOOLEAN :
       FetchReplyMemory(r, reply, pubThrows)
  \/ \E r \in Serial : Finish(r)

Spec == Init /\ [][Next]_vars

NextConsumer ==
  \/ \E stage \in SetupStages, jitter \in JitterEdges : SetupAttempt(stage, jitter)
  \/ SetupWake
  \/ \E ok \in BOOLEAN : SetupMemory(ok)
  \/ \E ok \in BOOLEAN : SetupMemoryStep(ok)
  \/ \E m \in Msgs : Consume(m)

SpecConsumer == Init /\ [][NextConsumer]_vars

NextChannel ==
  \/ \E stage \in SetupStages, jitter \in JitterEdges : SetupAttempt(stage, jitter)
  \/ SetupWake
  \/ \E ok \in BOOLEAN : SetupMemory(ok)
  \/ \E ok \in BOOLEAN : SetupMemoryStep(ok)
  \/ \E m \in Msgs : Consume(m)
  \/ \E m \in Msgs, ackThrows \in BOOLEAN, nackThrows \in BOOLEAN :
       ConsumeChannelFails(m, ackThrows, nackThrows)

SpecChannel == Init /\ [][NextChannel]_vars

NextRetry ==
  \/ \E retries \in 1..MaxRetries, initialDelay \in BaseDelays : RunStart(retries, initialDelay)
  \/ \E out \in [threw : BOOLEAN, v : FnValues], jitter \in Jitters : RunSettle(out, jitter)
  \/ RunWake

SpecRetry == Init /\ [][NextRetry]_vars

(***************************************************************************)
(* The orders service with its two handlers and the consumer, on a reduced *)
(* set of bootstrap failures and remote replies.                           *)
(***************************************************************************)
OrdersStages == {"createChannel", "ok"}
OrdersReplies == {200, 404, Timeout}

NextOrders ==
  \/ \E stage \in OrdersStages : SetupAttempt(stage, 0)
  \/ SetupWake
  \/ \E ok \in BOOLEAN : SetupMemory(ok)
  \/ \E ok \in BOOLEAN : SetupMemoryStep(ok)
  \/ \E m \in CoreMsgs : Consume(m)
  \/ \E r \in Serial, userId \in Ids : PostOrder(r, userId, TRUE)
  \/ \E r \in Serial, reply \in OrdersReplies : RemoteReply(r, reply, 0)
  \/ \E r \in Serial : RequestWake(r)
  \/ \E r \in Serial, dbOk \in BOOLEAN : CreateOrder(r, dbOk)
  \/ \E r \in Serial, reply \in OrdersReplies, pubThrows \in BOOLEAN :
       FetchReplyMemory(r, reply, pubThrows)
  \/ \E r \in Serial, id \in 1..MaxOrders : PatchOrder(r, id)
  \/ \E r \in Serial, dbOk \in BOOLEAN, pubThrows \in BOOLEAN : PatchSettle(r, dbOk, pubThrows)
  \/ \E r \in Serial, id \in 1..MaxOrders, pubThrows \in BOOLEAN : PatchMemory(r, id, pubThrows)
  \/ \E r \in Serial : Finish(r)

SpecOrders == Init /\ [][NextOrders]_vars

(***************************************************************************)
(* The handlers that publish, in both services: orders are created for one *)
(* user whose remote check succeeds.                                       *)
(***************************************************************************)
PublishIds == {"u1"}

NextPublish ==
  \/ \E stage \in OrdersStages : SetupAttempt(stage, 0)
  \/ SetupWake
  \/ \E ok \in BOOLEAN : SetupMemory(ok)
  \/ \E ok \in BOOLEAN : SetupMemoryStep(ok)
  \/ \E r \in Serial, userId \in PublishIds : PostOrder(r, userId, TRUE)
  \/ \E r \in Serial : RemoteReply(r, 200, 0)
  \/ \E r \in Serial : CreateOrder(r, TRUE)
  \/ \E r \in Serial, pubThrows \in BOOLEAN : FetchReplyMemory(r, 200, pubThrows)
  \/ \E r \in Serial, id \in 1..MaxOrders : PatchOrder(r, id)
  \/ \E r \in Serial, dbOk \in BOOLEAN, pubThrows \in BOOLEAN : PatchSettle(r, dbOk, pubThrows)
  \/ \E r \in Serial, id \in 1..MaxOrders, pubThrows \in BOOLEAN : PatchMemory(r, id, pubThrows)
  \/ \E r \in Serial : Finish(r)
  \/ \E ok \in BOOLEAN : UsersSetupAttempt(ok, 0)
  \/ UsersSetupWake
  \/ \E id \in PublishIds, wellFormed \in BOOLEAN, db \in {"ok", "P2002", "error"},
        pubThrows \in BOOLEAN : UsersPost(id, wellFormed, db, pubThrows)
  \/ \E id \in PublishIds, v \in 1..2, dbOk \in BOOLEAN, pubThrows \in BOOLEAN :
       UsersPatch(id, v, dbOk, pubThrows)

SpecPublish == Init /\ [][NextPublish]_vars

(***************************************************************************)
(* Two requests of POST / in flight at once, with a broker setup that      *)
(* succeeds and a reduced set of remote replies.                           *)
(***************************************************************************)
ConcurrentReplies == {200, 404, 503}

NextConcurrent ==
  \/ SetupAttempt("ok", 0)
  \/ SetupMemory(TRUE)
  \/ SetupMemoryStep(TRUE)
  \/ \E m \in CoreMsgs : Consume(m)
  \/ \E r \in Reqs, userId \in Ids : PostOrder(r, userId, TRUE)
  \/ \E r \in Reqs, reply \in ConcurrentReplies : RemoteReply(r, reply, 0)
  \/ \E r \in Reqs : RequestWake(r)
  \/ \E r \in Reqs : CreateOrder(r, TRUE)
  \/ \E r \in Reqs, reply \in ConcurrentReplies : FetchReplyMemory(r, reply, FALSE)
  \/ \E r \in Reqs : Finish(r)

SpecConcurrent == Init /\ [][NextConcurrent]_vars

\* every remote check and every retry timer of a request eventually settles
Fairness ==
  \A r \in Serial :
    /\ WF_vars(\E reply \in Replies, jitter \in JitterEdges : RemoteReply(r, reply, jitter))
    /\ WF_vars(RequestWake(r))
    /\ WF_vars(\E reply \in Replies, pubThrows \in BOOLEAN :
                 FetchReplyMemory(r, reply, pubThrows))

FairSpec == Spec /\ Fairness

(***************************************************************************)
(* Vocabulary of the properties.                                           *)
(***************************************************************************)
Last(h) == h[Len(h)]

\* a reply the design calls retryable: no answer, or 502/503/504
Retryable(reply) == FetchRejects(reply) \/ reply \in {502, 503, 504}

AllRetryable(h) == \A i \in 1..Len(h) : Retryable(h[i])

Is4xx(reply) == reply >= 400 /\ reply <= 499

Is5xx(reply) == reply >= 500 /\ reply <= 599

Exhausted(q) == Len(q.hist) = ValidateRetries /\ AllRetryable(q.hist)

Outcomes == {"Valid", "Invalid", "Unavailable"}

\* 2^n
RECURSIVE Pow2(_)
Pow2(n) == IF n = 0 THEN 1 ELSE 2 * Pow2(n - 1)

\* the remote checks in h that failed (validateUserHttp threw)
Failures(h) == Cardinality({i \in 1..Len(h) : validateUserHttp(h[i]).threw})

(***************************************************************************)
(* C1. POST / with retry: when all 3 remote checks fail retryably, the     *)
(* outcome is read off the cache as it is at that moment: present -> Valid *)
(* and the handler goes on to create the order; absent -> Unavailable      *)
(* (503). From then on the request issues no further remote check, and an  *)
(* Unavailable request never adds an order.                                *)
(***************************************************************************)
C1_FallbackDecision ==
  [][\A r \in Reqs :
       /\ (version = "retry" /\ Len(req'[r].hist) > Len(req[r].hist)
             /\ Exhausted(req'[r]))
            => /\ req'[r].calls = ValidateRetries
               /\ orders' = orders
               /\ IF MapHas(userCache, req[r].userId)
                  THEN req'[r].pc = "creating" /\ req'[r].outcome = "Valid"
                  ELSE /\ req'[r].pc = "done" /\ req'[r].outcome = "Unavailable"
                       /\ req'[r].http = 503
       /\ (version = "retry" /\ Exhausted(req[r]) /\ req'[r].pc # "idle")
            => /\ req'[r].calls = req[r].calls
               /\ req'[r].hist = req[r].hist
               /\ req'[r].outcome = req[r].outcome
               /\ (req[r].outcome = "Unavailable" => orders' = orders)
               /\ (orders' # orders => req[r].outcome = "Valid")
    ]_vars

C1_Witness ==
  \E r \in Reqs : /\ version = "retry" /\ Exhausted(req[r]) /\ req[r].http = 201
                  /\ req[r].outcome = "Valid" /\ req[r].lookup = "hit"
                  /\ Len(orders) > 0

(***************************************************************************)
(* C2. A 4xx reply (404) to a remote check ends the validation at once as  *)
(* Invalid (400): the attempt that received it is the last remote check,   *)
(* no retry delay follows it, no order is created; a 404 on the first      *)
(* attempt means exactly one remote check.                                 *)
(***************************************************************************)
C2_DefinitiveRejection ==
  [][\A r \in Reqs :
       /\ (version = "retry" /\ Len(req'[r].hist) > Len(req[r].hist)
             /\ Is4xx(Last(req'[r].hist)))
            => /\ req'[r].pc = "done" /\ req'[r].outcome = "Invalid" /\ req'[r].http = 400
               /\ req'[r].calls = req[r].calls
               /\ req'[r].calls = Len(req'[r].hist)
               /\ req'[r].rx.waits = req[r].rx.waits
               /\ req'[r].rx.pc # "sleeping"
               /\ orders' = orders
               /\ (Len(req[r].hist) = 0 => req'[r].calls = 1)
       /\ (version = "retry" /\ req[r].outcome = "Invalid")
            => /\ orders' = orders
               /\ (req'[r] = req[r] \/ req'[r].pc = "idle")
    ]_vars

C2_Witness ==
  \E r \in Reqs : /\ version = "retry" /\ req[r].hist = <<404>> /\ req[r].calls = 1
                  /\ req[r].http = 400 /\ req[r].outcome = "Invalid"

(***************************************************************************)
(* C3. Every 5xx reply, 500 included, is a retryable failure: a request    *)
(* whose last reply is a 5xx never ends Invalid.                           *)
(***************************************************************************)
C3_Every5xxRetryable ==
  \A r \in Reqs :
    (version = "retry" /\ Len(req[r].hist) > 0 /\ Is5xx(Last(req[r].hist)))
      => req[r].outcome # "Invalid"

(***************************************************************************)
(* C4. retryWithBackoff with limit N >= 1 on an operation that fails every *)
(* time: the operation is invoked exactly N times and the failure raised   *)
(* is the one thrown by the N-th invocation. The number of invocations     *)
(* never exceeds N, and no failure is raised before the N-th.              *)
(* An operation that rejects with null or undefined breaks it: the log     *)
(* line of the catch block reads err.message and the run rejects with a    *)
(* TypeError after that invocation, whatever the limit.                    *)
(***************************************************************************)
C4_ExhaustionRaisesLast ==
  /\ run.rx.calls <= run.rx.retries
  /\ run.rx.pc = "thrown"
       => /\ run.rx.calls = run.rx.retries
          /\ run.fnLast.threw
          /\ run.rx.value = run.fnLast.v
  /\ (run.rx.pc = "sleeping" => run.fnLast.threw /\ run.rx.calls < run.rx.retries)

(***************************************************************************)
(* C5. When a remote check first succeeds on attempt k, retryWithBackoff   *)
(* returns that reply at once: k remote checks in all, none after it, and  *)
(* the request is Valid. 200 on the first attempt: one remote check;       *)
(* 503, 503, 200: three remote checks.                                     *)
(***************************************************************************)
C5_ReturnsOnFirstSuccess ==
  \A r \in Reqs :
    (version = "retry" /\ Len(req[r].hist) > 0 /\ RespOk(Last(req[r].hist)))
      => /\ req[r].rx.pc = "returned"
         /\ req[r].rx.value = Last(req[r].hist)
         /\ req[r].calls = Len(req[r].hist)
         /\ req[r].rx.calls = Len(req[r].hist)
         /\ req[r].outcome = "Valid"
         /\ \A i \in 1..(Len(req[r].hist) - 1) : ~RespOk(req[r].hist[i])
         /\ (req[r].hist = <<200>> => req[r].calls = 1)
         /\ (req[r].hist = <<503, 503, 200>> => req[r].calls = 3)

C5_Witness ==
  \E r \in Reqs : /\ version = "retry" /\ req[r].hist = <<503, 503, 200>>
                  /\ req[r].calls = 3 /\ req[r].outcome = "Valid"

\* C5 for any policy: a returned run made as many calls as its attempt
\* number, and returns the value of its last invocation
C5_AnyPolicy ==
  run.rx.pc = "returned"
    => /\ ~run.fnLast.threw /\ run.rx.value = run.fnLast.v
       /\ run.rx.calls = run.rx.attempt /\ run.rx.calls <= run.rx.retries

(***************************************************************************)
(* C6. After failed attempt k below the limit, the wait before attempt     *)
(* k+1 is at least initialDelay * 2^(k-1) and less than                    *)
(* initialDelay * 2^(k-1) + 1000, 1000 ms being the jitter bound.          *)
(***************************************************************************)
C6_WaitBounds ==
  run.rx.pc = "sleeping"
    => /\ run.rx.attempt < run.rx.retries
       /\ run.rx.waitTime >= run.rx.initialDelay * Pow2(run.rx.attempt - 1)
       /\ run.rx.waitTime < run.rx.initialDelay * Pow2(run.rx.attempt - 1) + JitterMs

C6_Witness ==
  /\ run.rx.pc = "sleeping" /\ run.rx.attempt = 3
  /\ run.rx.waitTime = 4 * run.rx.initialDelay + (JitterMs - 1)
  /\ run.rx.initialDelay = ValidateInitialDelay

(***************************************************************************)
(* C7. Every persisted order was created by a request whose validation     *)
(* ended Valid: its last remote check succeeded, or the checks were        *)
(* exhausted (retry version) or rejected (memory version) and the user id  *)
(* is in the cache. No request that ended Invalid or Unavailable adds an   *)
(* order.                                                                  *)
(***************************************************************************)
C7_OrdersOnlyAfterValid ==
  /\ [](\A i \in 1..Len(orders) : orders[i].validation = "Valid")
  /\ [][orders' # orders =>
          \E r \in Reqs :
            /\ req'[r].outcome = "Valid" /\ req'[r].http = 201
            /\ orders' = Append(orders, NewOrder(req'[r].userId, "Valid"))
            /\ Len(req'[r].hist) > 0
            /\ \/ RespOk(Last(req'[r].hist))
               \/ /\ AllRetryable(req'[r].hist)
                  /\ MapHas(userCache, req'[r].userId)
                  /\ (version = "retry" => Len(req'[r].hist) = ValidateRetries)
     ]_vars

C7_Witness ==
  /\ Len(orders) = 2
  /\ \E r \in Reqs : req[r].http = 201 /\ req[r].lookup = "hit"

(***************************************************************************)
(* C8. Given that every remote check and retry timer settles, every        *)
(* validation of a well-formed request ends in one of Valid, Invalid (400) *)
(* or Unavailable (503), with at most 3 remote checks; Invalid is reported *)
(* only on a non-success answer of the remote service, Unavailable only    *)
(* when no attempt was answered and the cache has no entry, each with its  *)
(* own status code.                                                        *)
(***************************************************************************)
C8_ValidationTerminates ==
  /\ \A r \in Serial :
       (req[r].pc = "validating")
         ~> (req[r].pc \in {"creating", "done"} /\ req[r].outcome \in Outcomes)
  /\ [](\A r \in Reqs :
          /\ req[r].calls <= ValidateRetries
          /\ Len(req[r].hist) <= req[r].calls
          /\ (req[r].pc = "creating" => req[r].outcome = "Valid")
          /\ (req[r].pc = "done" => req[r].outcome \in Outcomes \cup {"rejected"})
          /\ (req[r].outcome = "rejected" => req[r].calls = 0 /\ req[r].http = 400)
          /\ (req[r].outcome = "Valid" /\ req[r].pc = "done" => req[r].http \in {201, 500})
          /\ (req[r].outcome = "Invalid"
                => /\ req[r].http = 400 /\ req[r].pc = "done"
                   /\ ~FetchRejects(Last(req[r].hist)) /\ ~RespOk(Last(req[r].hist)))
          /\ (req[r].outcome = "Unavailable"
                => /\ req[r].http = 503 /\ req[r].pc = "done"
                   /\ AllRetryable(req[r].hist) /\ req[r].lookup = "miss"))

C8_Witness ==
  \E r \in Reqs : /\ req[r].outcome = "Unavailable" /\ req[r].calls = ValidateRetries
                  /\ req[r].http = 503 /\ Len(orders) > 0

(***************************************************************************)
(* C9. A delivered message whose payload does not parse is rejected with   *)
(* nack(msg, false, false), is not acknowledged, and leaves the cache as   *)
(* it was, whatever its routing key.                                       *)
(***************************************************************************)
C9_UnparsableRejected ==
  [][JSONparse(settled'.msg.content).threw
       => /\ settled'.nack = 1 /\ settled'.ack = 0 /\ ~settled'.requeue
          /\ userCache' = userCache
    ]_vars

C9_Witness ==
  /\ settled.msg.content.kind = "garbage"
  /\ settled.msg.routingKey = ROUTING_KEY_USER_UPDATED
  /\ settled.nack = 1
  /\ userCache # {}

(***************************************************************************)
(* C10. In every version of the consumer, a delivered message whose        *)
(* payload parses and whose routing key is user-created or user-updated    *)
(* leaves the cache holding the payload under the payload's id, and is     *)
(* acknowledged, not rejected.                                             *)
(***************************************************************************)
C10_UserEventCachedAndAcked ==
  LET data == JSONparse(settled.msg.content) IN
  (settled.msg.content.kind # "none" /\ ~data.threw /\ IsUserKey(settled.msg.routingKey))
    => /\ settled.ack = 1 /\ settled.nack = 0
       /\ MapGet(userCache, data.id) = {Snapshot(data)}

(***************************************************************************)
(* C11. A delivered message whose payload parses and whose routing key is  *)
(* neither user-created nor user-updated is acknowledged, not rejected,    *)
(* and leaves the cache exactly as it was.                                 *)
(***************************************************************************)
C11_OtherKeyAckedNoWrite ==
  [][(settled'.msg.content.kind # "none" /\ ~JSONparse(settled'.msg.content).threw
        /\ ~IsUserKey(settled'.msg.routingKey))
       => /\ settled'.ack = 1 /\ settled'.acked
          /\ settled'.nack = 0 /\ ~settled'.rejected
          /\ userCache' = userCache
    ]_vars

C11_Witness ==
  /\ settled.msg.routingKey = OtherKey /\ settled.msg.content.kind = "obj"
  /\ settled.acked /\ settled.nack = 0
  /\ userCache # {} /\ ~MapHas(userCache, settled.msg.content.id)

(***************************************************************************)
(* C12. Last write wins in delivery order: the cache holds at most one     *)
(* snapshot per id; an acknowledged user-created or user-updated message   *)
(* leaves its payload under its id and every other id as it was, and no    *)
(* other step changes any entry. user-updated followed by user-created for *)
(* the same id raises no error and leaves the payload delivered last.      *)
(***************************************************************************)
C12_LastWriteWins ==
  /\ [](\A k \in Ids \cup {"undefined"} : Cardinality(MapGet(userCache, k)) <= 1)
  /\ [][LET m == settled'.msg
            data == JSONparse(m.content)
            applied == settled'.acked /\ IsUserKey(m.routingKey)
        IN /\ \A k \in Ids \cup {"undefined"} :
                MapGet(userCache', k) = IF applied /\ k = data.id THEN {Snapshot(data)}
                                        ELSE MapGet(userCache, k)
           /\ (version = "retry" /\ m.routingKey = ROUTING_KEY_USER_CREATED
                 /\ m.content.kind = "obj"
                 /\ settled'.prev.routingKey = ROUTING_KEY_USER_UPDATED
                 /\ settled'.prev.content.kind = "obj"
                 /\ settled'.prev.content.id = m.content.id)
                => /\ settled'.acked /\ settled'.nack = 0
                   /\ MapGet(userCache', m.content.id) = {Snapshot(data)}
       ]_vars

C12_Witness ==
  /\ version = "retry"
  /\ settled.prev = [content |-> [kind |-> "obj", id |-> "u1", v |-> 2],
                     routingKey |-> ROUTING_KEY_USER_UPDATED]
  /\ settled.msg = [content |-> [kind |-> "obj", id |-> "u1", v |-> 1],
                    routingKey |-> ROUTING_KEY_USER_CREATED]
  /\ MapGet(userCache, "u1") = {[id |-> "u1", v |-> 1]}
  /\ MapHas(userCache, "u2")

(***************************************************************************)
(* C13. Applying the same user-created event twice in a row is idempotent: *)
(* the whole cache after the second application equals the cache after the *)
(* first, and both deliveries are acknowledged.                            *)
(***************************************************************************)
C13_CreatedTwiceIdempotent ==
  [][(version = "retry" /\ settled'.prev = settled'.msg
        /\ settled'.msg.routingKey = ROUTING_KEY_USER_CREATED
        /\ settled'.msg.content.kind \in {"obj", "noid"})
       => /\ userCache' = userCache
          /\ settled.msg = settled'.msg
          /\ settled.acked /\ settled.nack = 0
          /\ settled'.acked /\ settled'.nack = 0
          /\ MapGet(userCache', JSONparse(settled'.msg.content).id)
               = {Snapshot(JSONparse(settled'.msg.content))}
    ]_vars

C13_Witness ==
  /\ version = "retry"
  /\ settled.prev = settled.msg
  /\ settled.msg = [content |-> [kind |-> "obj", id |-> "u1", v |-> 1],
                    routingKey |-> ROUTING_KEY_USER_CREATED]
  /\ settled.acked
  /\ userCache = {<<"u1", [id |-> "u1", v |-> 1]>>, <<"u2", [id |-> "u2", v |-> 2]>>}

(***************************************************************************)
(* C14. An exception thrown by ch.publish is caught where it is thrown:    *)
(* the handler still answers its success status (200 for PATCH, 201 for    *)
(* POST), the committed order or user stays as committed, and publish was  *)
(* called once, not again. This holds for order cancelled, order created   *)
(* (memory version), user created and user updated.                        *)
(***************************************************************************)
C14_PublishFailureContained ==
  /\ [](\A r \in Reqs :
          req[r].pub.threw
            => /\ req[r].pc = "done" /\ req[r].pub.calls = 1 /\ ~req[r].pub.escaped
               /\ (req[r].kind = "patch"
                     => /\ req[r].http = 200 /\ req[r].pub.key = ORDER_CANCELLED
                        /\ req[r].target \in 1..Len(orders)
                        /\ orders[req[r].target].status = "cancelled"
                        /\ req[r].pub.payload = <<orders[req[r].target]>>)
               /\ (req[r].kind = "post"
                     => /\ req[r].http = 201 /\ req[r].pub.key = ORDER_CREATED
                        /\ Len(orders) > 0
                        /\ req[r].pub.payload = <<Last(orders)>>))
  /\ [](usersSvc.last.pub.threw
          => /\ usersSvc.last.committed /\ usersSvc.last.pub.calls = 1
             /\ ~usersSvc.last.pub.escaped
             /\ usersSvc.last.http = IF usersSvc.last.kind = "create" THEN 201 ELSE 200
             /\ <<MapGet(usersSvc.db, usersSvc.last.id)>>
                  = <<{usersSvc.last.pub.payload[1]}>>)
  /\ [][/\ \A r \in Reqs : (req[r].pub.threw /\ req'[r] # req[r])
                               => req'[r] = ReqIdle /\ orders' = orders
        /\ (usersSvc.last.pub.threw /\ usersSvc'.last = usersSvc.last)
             => usersSvc'.db = usersSvc.db
       ]_vars

C14_Witness ==
  /\ \E r \in Reqs : /\ req[r].kind = "patch" /\ req[r].pub.threw /\ req[r].http = 200
                      /\ orders[req[r].target].status = "cancelled"
  /\ usersSvc.last.kind = "create" /\ usersSvc.last.pub.threw /\ usersSvc.last.http = 201
  /\ MapHas(usersSvc.db, usersSvc.last.id)

(***************************************************************************)
(* C15. Whenever an order is committed while the broker channel is         *)
(* available, the creating request calls publish once with order.created   *)
(* and the snapshot of the committed order.                                *)
(***************************************************************************)
C15_OrderCreatedPublished ==
  [][\A r \in Reqs :
       (Len(orders') > Len(orders) /\ amqp = "conn" /\ req'[r] # req[r])
         => /\ req'[r].pub.calls = 1
            /\ req'[r].pub.key = ORDER_CREATED
            /\ req'[r].pub.payload = <<Last(orders')>>
    ]_vars

(***************************************************************************)
(* C16. The status of an order only moves from created to cancelled: an    *)
(* order is created with status created, a cancelled order stays           *)
(* cancelled, and the only step that changes a status is a PATCH /:id      *)
(* answered 200 for that order. Orders are never removed.                  *)
(***************************************************************************)
C16_StatusMonotone ==
  /\ [](\A i \in 1..Len(orders) : orders[i].status \in {"created", "cancelled"})
  /\ [][/\ Len(orders') >= Len(orders)
        /\ Len(orders') > Len(orders)
             => Len(orders') = Len(orders) + 1 /\ Last(orders').status = "created"
        /\ \A i \in 1..Len(orders) :
             /\ orders'[i].userId = orders[i].userId
             /\ orders[i].status = "cancelled" => orders'[i].status = "cancelled"
             /\ orders'[i].status # orders[i].status
                  => /\ orders[i].status = "created" /\ orders'[i].status = "cancelled"
                     /\ \E r \in Reqs : /\ req'[r].kind = "patch" /\ req'[r].target = i
                                         /\ req'[r].pc = "done" /\ req'[r].http = 200
                                         /\ req[r].pc # "done"
       ]_vars

C16_Witness ==
  /\ Len(orders) = 2
  /\ orders[1].status = "cancelled" /\ orders[2].status = "created"
  /\ \E r \in Reqs : req[r].kind = "post" /\ req[r].http = 201

(***************************************************************************)
(* C17. When the broker setup has failed on every one of its attempts (5   *)
(* with retry), the failure is caught and the service goes on: no consumer *)
(* is registered then or later, the cache is and stays empty, and every    *)
(* validation still reaches an outcome: Valid or Invalid from the remote   *)
(* check, Unavailable whenever the remote checks are exhausted.            *)
(***************************************************************************)
C17_SetupExhausted ==
  /\ [](setup.pc = "thrown"
          => /\ consumers = 0 /\ userCache = {} /\ settled = NoDelivery
             /\ (version = "retry" => setup.calls = SetupRetries /\ amqp = "null"))
  /\ [][setup.pc = "thrown"
          => setup' = setup /\ consumers' = 0 /\ userCache' = {} /\ amqp' = amqp]_vars
  /\ [](\A r \in Reqs :
          (version = "retry" /\ setup.pc = "thrown" /\ req[r].pc \in {"creating", "done"}
             /\ req[r].outcome # "rejected")
            => /\ req[r].outcome \in Outcomes
               /\ (Exhausted(req[r]) => req[r].outcome = "Unavailable" /\ req[r].http = 503)
               /\ (req[r].outcome = "Unavailable" => Exhausted(req[r]))
               /\ (req[r].outcome = "Valid" => RespOk(Last(req[r].hist)))
               /\ (req[r].outcome = "Invalid"
                     => ~RespOk(Last(req[r].hist)) /\ ~FetchRejects(Last(req[r].hist))))
  /\ \A r \in Serial :
       (version = "retry" /\ setup.pc = "thrown" /\ req[r].pc = "validating")
         ~> (req[r].pc \in {"creating", "done"} /\ req[r].outcome \in Outcomes)

C17_Witness ==
  /\ version = "retry" /\ setup.pc = "thrown" /\ setup.calls = SetupRetries
  /\ Len(orders) > 0
  /\ \E r \in Reqs : /\ req[r].outcome = "Unavailable" /\ Exhausted(req[r])
                      /\ req[r].http = 503

(***************************************************************************)
(* C18. The user cache is written only by the event consumer: a step that  *)
(* changes the cache is the delivery of an acknowledged user-created or    *)
(* user-updated message, and it touches no request, order or connection;   *)
(* no step of validation, creation, cancellation or publishing changes the *)
(* cache.                                                                  *)
(***************************************************************************)
C18_CacheWrittenOnlyByConsumer ==
  [][/\ userCache' # userCache
          => /\ settled'.acked /\ IsUserKey(settled'.msg.routingKey)
             /\ settled' # settled /\ settled'.prev = settled.msg
             /\ userCache' = MapSet(userCache, settled'.msg.content.id,
                                    Snapshot(JSONparse(settled'.msg.content)))
             /\ req' = req /\ orders' = orders /\ amqp' = amqp /\ setup' = setup
     /\ (req' # req \/ orders' # orders) => userCache' = userCache
    ]_vars

C18_Witness ==
  /\ userCache # {}
  /\ Len(orders) = 2
  /\ \E r \in Reqs : /\ req[r].kind = "patch" /\ req[r].http = 200
                      /\ req[r].pub.calls = 1 /\ ~req[r].pub.threw
  /\ orders[1].validation = "Valid"

(***************************************************************************)
(* C19. Every remote check has a timeout of its own. When it expires, that *)
(* attempt alone is aborted and counts as a retryable failure: below the   *)
(* limit the request sends no response and waits for its next attempt,     *)
(* which is then issued and may itself answer or time out; on the last     *)
(* attempt the cache decides. A timeout never ends the request by itself.  *)
(***************************************************************************)
C19_TimeoutIsRetryable ==
  /\ [][\A r \in Reqs :
         (version = "retry" /\ Len(req'[r].hist) > Len(req[r].hist)
            /\ Last(req'[r].hist) = Timeout)
           => IF Len(req'[r].hist) < ValidateRetries
              THEN /\ req'[r].pc = "validating" /\ req'[r].rx.pc = "sleeping"
                   /\ req'[r].http = 0 /\ req'[r].outcome = "none"
                   /\ req'[r].rx.waits = req[r].rx.waits + 1
                   /\ req'[r].calls = req[r].calls
              ELSE /\ req'[r].rx.pc = "thrown"
                   /\ req'[r].outcome = IF MapHas(userCache, req[r].userId)
                                        THEN "Valid" ELSE "Unavailable"
       ]_vars
  /\ \A r \in Serial : \A k \in 1..(ValidateRetries - 1) :
       (version = "retry" /\ req[r].pc = "validating" /\ Len(req[r].hist) = k
          /\ Last(req[r].hist) = Timeout)
         ~> (req[r].calls = k + 1 /\ Len(req[r].hist) = k /\ req[r].rx.pc = "calling")

C19_Witness ==
  \E r \in Reqs : /\ version = "retry" /\ req[r].hist = <<Timeout, Timeout, 200>>
                  /\ req[r].calls = 3 /\ req[r].outcome = "Valid"

(***************************************************************************)
(* C20. Every delivered message is settled exactly once: it ends either    *)
(* acknowledged or rejected without requeue, never both and never neither, *)
(* also when the call of ch.ack or ch.nack throws.                         *)
(***************************************************************************)
C20_SettledExactlyOnce ==
  settled.msg.content.kind # "none"
    => /\ settled.acked # settled.rejected
       /\ ~settled.requeue

(***************************************************************************)
(* C21. retryWithBackoff waits only between attempts: a request with f     *)
(* failed remote checks has waited f times when its run returns or is      *)
(* still going, and f - 1 times when the run is exhausted (no wait follows *)
(* the final failure); 503, 503, 200 under the limit of 3 is two waits.    *)
(***************************************************************************)
C21_WaitsBetweenAttempts ==
  \A r \in Reqs :
    (version = "retry" /\ req[r].rx.pc # "idle")
      => LET f == Failures(req[r].hist)
             w == req[r].rx.waits
         IN /\ (req[r].rx.pc = "returned" => w = f /\ f = Len(req[r].hist) - 1)
            /\ (req[r].rx.pc = "thrown" => w = f - 1 /\ f = req[r].rx.retries)
            /\ (req[r].rx.pc = "sleeping" => w = f /\ f < req[r].rx.retries)
            /\ (req[r].rx.pc = "calling" => w = f /\ f < req[r].rx.retries)
            /\ (req[r].hist = <<503, 503, 200>> => w = 2)

C21_Witness ==
  /\ \E r \in Reqs : /\ version = "retry" /\ req[r].hist = <<503, 503, 200>>
                      /\ req[r].rx.waits = 2 /\ req[r].rx.pc = "returned"
  /\ Len(orders) > 0

\* C21 for any policy: a returned or exhausted run has waited once less
\* than it has called the operation
C21_AnyPolicy ==
  /\ (run.rx.pc \in {"returned", "thrown", "calling"} => run.rx.waits = run.rx.calls - 1)
  /\ (run.rx.pc = "sleeping" => run.rx.waits = run.rx.calls)
  /\ (run.rx.pc = "thrown" /\ run.rx.value # TypeErrorValue
        => run.rx.waits = run.rx.retries - 1)

(***************************************************************************)
(* C22. The cache is read by the validation only after all 3 remote checks *)
(* have failed retryably. A request that received an answer never consults *)
(* the cache: a 404 ends Invalid also when the cache holds the user id, a  *)
(* success ends Valid also when the cache does not hold it.                *)
(***************************************************************************)
C22_CacheOnlyAfterExhaustion ==
  /\ [](\A r \in Reqs :
          version = "retry"
            => /\ (req[r].lookup # "none" => Exhausted(req[r]) /\ req[r].rx.pc = "thrown")
               /\ (req[r].outcome = "Invalid" => req[r].lookup = "none")
               /\ (Len(req[r].hist) > 0 /\ ~Retryable(Last(req[r].hist))
                     => /\ req[r].lookup = "none"
                        /\ req[r].outcome = IF RespOk(Last(req[r].hist)) THEN "Valid"
                                             ELSE "Invalid"))
  /\ [][\A r \in Reqs :
         (version = "retry" /\ req'[r].lookup # req[r].lookup /\ req'[r].pc # "idle")
           => /\ Exhausted(req'[r]) /\ Len(req'[r].hist) > Len(req[r].hist)
              /\ req'[r].lookup = IF MapHas(userCache, req[r].userId) THEN "hit" ELSE "miss"
       ]_vars

C22_Witness ==
  \E r \in Reqs : /\ version = "retry" /\ req[r].hist = <<503, 404>>
                  /\ req[r].outcome = "Invalid" /\ req[r].lookup = "none"
                  /\ MapHas(userCache, req[r].userId)

(***************************************************************************)
(* C23. An event is published only after the change it describes has       *)
(* committed: a PATCH of an order, a POST or a PATCH of a user that fails  *)
(* (not found, duplicate, storage error) calls publish for nothing, and    *)
(* whatever is handed to publish is the record as committed.               *)
(***************************************************************************)
C23_PublishOnlyAfterCommit ==
  /\ [](\A r \in Reqs :
          /\ (req[r].pc = "done" /\ req[r].kind = "patch" /\ req[r].http # 200)
               => req[r].pub = NoPublish
          /\ (req[r].pc = "done" /\ req[r].kind = "post" /\ req[r].http # 201)
               => req[r].pub = NoPublish
          /\ (req[r].pub.calls > 0 /\ req[r].kind = "patch")
               => /\ req[r].target \in 1..Len(orders)
                  /\ req[r].pub.payload = <<orders[req[r].target]>>
                  /\ orders[req[r].target].status = "cancelled"
          /\ (req[r].pub.calls > 0 /\ req[r].kind = "post")
               => Len(orders) > 0 /\ req[r].pub.payload = <<Last(orders)>>)
  /\ [](/\ ~usersSvc.last.committed => usersSvc.last.pub = NoPublish
        /\ usersSvc.last.http \notin {200, 201} => ~usersSvc.last.committed
        /\ usersSvc.last.pub.calls > 0
             => /\ usersSvc.last.committed
                /\ <<MapGet(usersSvc.db, usersSvc.last.id)>>
                     = <<{usersSvc.last.pub.payload[1]}>>)

C23_Witness ==
  /\ amqp = "conn" /\ usersSvc.amqp = "conn"
  /\ \E r \in Reqs : /\ req[r].kind = "patch" /\ req[r].http = 404
                      /\ req[r].pub.calls = 0
  /\ usersSvc.last.kind = "create" /\ usersSvc.last.http = 400
  /\ usersSvc.db # {} /\ usersSvc.last.pub.calls = 0

(***************************************************************************)
(* C24. The set of ids in the cache never shrinks: an id that is a key of  *)
(* the cache is a key of it after every step, whatever message is          *)
(* delivered next, so userCache.has answers true for it from then on.      *)
(***************************************************************************)
C24_CacheIdsNeverShrink ==
  [][\A k \in Ids \cup {"undefined"} : MapHas(userCache, k) => MapHas(userCache', k)]_vars

C24_Witness ==
  /\ MapHas(userCache, "u1") /\ MapHas(userCache, "u2")
  /\ settled.msg.content.kind = "null" /\ IsUserKey(settled.msg.routingKey)
  /\ settled.nack = 1
  /\ settled.prev.content.kind = "garbage"

(***************************************************************************)
(* C27. Over all attempts of the broker setup at most one consumer is      *)
(* registered: an attempt that fails (channel creation, queue assertion,   *)
(* binding) registers none, the attempt that registers one is the last,    *)
(* and nothing is attempted after it.                                      *)
(***************************************************************************)
C27_AtMostOneConsumer ==
  /\ [](consumers <= 1 /\ (consumers = 1 => setup.pc = "returned"))
  /\ [][/\ consumers' # consumers
             => /\ consumers = 0 /\ consumers' = 1
                /\ setup.pc = (IF version = "retry" THEN "calling" ELSE "bindUpdated")
                /\ setup'.pc = "returned"
        /\ (setup' # setup /\ setup'.pc \in {"sleeping", "thrown"})
             => consumers' = 0 /\ consumers = 0
        /\ setup.pc = "returned" => setup' = setup /\ consumers' = consumers
       ]_vars

C27_Witness ==
  /\ version = "retry" /\ consumers = 1
  /\ setup.pc = "returned" /\ setup.calls = SetupRetries
  /\ settled.acked /\ userCache # {}

(***************************************************************************)
(* C25. Deliveries interleave with a validation that waits on a remote     *)
(* check or a retry delay, and the fallback reads the cache as it is when  *)
(* the last attempt has failed: if the user id is in the cache by then,    *)
(* also when it was not there at the first failure of the same request,    *)
(* the request ends Valid, not Unavailable.                                *)
(***************************************************************************)
C25_LookupAtLookupTime ==
  /\ [](\A r \in Serial :
          (consumers > 0 /\ req[r].pc = "validating")
            => ENABLED (\E m \in CoreMsgs : Consume(m)))
  /\ [][\A r \in Reqs :
         (Len(req'[r].hist) > Len(req[r].hist) /\ MapHas(userCache, req[r].userId)
            /\ IF version = "retry" THEN Exhausted(req'[r])
               ELSE FetchRejects(Last(req'[r].hist)))
           => /\ req'[r].outcome = "Valid" /\ req'[r].lookup = "hit"
              /\ req'[r].http \notin {400, 503}
       ]_vars
  /\ [](\A r \in Reqs :
          (req[r].early = "miss" /\ req[r].lookup = "hit")
            => req[r].outcome = "Valid" /\ req[r].pc \in {"creating", "done"})

C25_Witness ==
  \E r \in Reqs : /\ version = "retry" /\ req[r].early = "miss" /\ req[r].lookup = "hit"
                  /\ req[r].outcome = "Valid" /\ req[r].http = 201
                  /\ Exhausted(req[r])

(***************************************************************************)
(* C26. Concurrent executions of retryWithBackoff do not affect each       *)
(* other: with two requests in flight, a step of one leaves the other as   *)
(* it is, each request keeps an attempt counter and a delay of its own     *)
(* (attempt = its own calls, delay = 500 * 2^(attempt - 1)), makes at most *)
(* 3 remote checks, and its outcome is a function of its own replies and   *)
(* of the cache lookup alone.                                              *)
(***************************************************************************)
C26_RunsAreIndependent ==
  /\ [](\A r \in Reqs :
          /\ req[r].calls <= ValidateRetries
          /\ (version = "retry" /\ req[r].rx.pc # "idle")
               => /\ req[r].rx.attempt = req[r].calls
                  /\ req[r].rx.calls = req[r].calls
                  /\ req[r].rx.delay = ValidateInitialDelay * Pow2(req[r].rx.attempt - 1)
                  /\ req[r].rx.waits = Failures(req[r].hist)
                                         - (IF req[r].rx.pc = "thrown" THEN 1 ELSE 0)
                  /\ Len(req[r].hist) \in {req[r].calls - 1, req[r].calls}
          /\ (version = "retry" /\ req[r].kind = "post" /\ req[r].pc \in {"creating", "done"}
                /\ req[r].outcome # "rejected")
               => req[r].outcome =
                    IF RespOk(Last(req[r].hist)) THEN "Valid"
                    ELSE IF ~Retryable(Last(req[r].hist)) THEN "Invalid"
                    ELSE IF req[r].lookup = "hit" THEN "Valid" ELSE "Unavailable")
  /\ [][\A r \in Reqs : \A q \in Reqs \ {r} : req'[r] # req[r] => req'[q] = req[q]]_vars

C26_Witness ==
  /\ version = "retry"
  /\ req[1].pc = "validating" /\ req[1].rx.pc = "sleeping" /\ req[1].rx.attempt = 2
  /\ req[1].rx.delay = 2 * ValidateInitialDelay
  /\ req[2].pc = "validating" /\ req[2].rx.pc = "calling" /\ req[2].rx.attempt = 1
  /\ req[2].rx.delay = ValidateInitialDelay
  /\ req[1].userId = req[2].userId

(***************************************************************************)
(* C28. Without a broker channel (amqp is null) the cancel of an order and *)
(* the create or update of a user still commit and answer their success    *)
(* status; publish is not called and nothing is thrown. When the channel   *)
(* appears later, nothing is published for the requests served before.     *)
(***************************************************************************)
C28_NoChannelSkipsEvent ==
  /\ [][\A r \in Reqs :
         (amqp = "null" /\ req'[r].kind = "patch" /\ req'[r].pc = "done"
            /\ req[r].pc # "done" /\ req'[r].prior # "none")
           => /\ req'[r].http = 200 /\ req'[r].pub = NoPublish
              /\ orders'[req'[r].target].status = "cancelled"
       ]_vars
  /\ [][(usersSvc.amqp = "null" /\ usersSvc'.db # usersSvc.db)
          => /\ usersSvc'.last.committed /\ usersSvc'.last.pub = NoPublish
             /\ usersSvc'.last.http = IF usersSvc'.last.kind = "create" THEN 201 ELSE 200
             /\ MapHas(usersSvc'.db, usersSvc'.last.id)
       ]_vars
  /\ [][/\ amqp' # amqp => req' = req /\ orders' = orders
        /\ usersSvc'.amqp # usersSvc.amqp
             => usersSvc'.last = usersSvc.last /\ usersSvc'.db = usersSvc.db
       ]_vars
  /\ [](\A r \in Reqs : ~req[r].pub.ch => req[r].pub = NoPublish)

C28_Witness ==
  /\ version = "retry" /\ setup.pc = "thrown" /\ amqp = "null"
  /\ \E r \in Reqs : /\ req[r].kind = "patch" /\ req[r].http = 200
                      /\ req[r].pub = NoPublish /\ req[r].prior = "created"
  /\ usersSvc.setup.pc = "thrown" /\ usersSvc.amqp = "null"
  /\ usersSvc.last.kind = "update" /\ usersSvc.last.http = 200
  /\ usersSvc.last.pub = NoPublish

(***************************************************************************)
(* C29. Cancelling an order is idempotent on its state, not on its events: *)
(* a PATCH of an order that is already cancelled leaves every order as it  *)
(* is, answers 200, and with a channel calls publish once more with        *)
(* order.cancelled and the order.                                          *)
(***************************************************************************)
C29_SecondCancelPublishesAgain ==
  [][\A r \in Reqs :
       (req'[r].kind = "patch" /\ req'[r].pc = "done" /\ req[r].pc # "done"
          /\ req'[r].target \in 1..Len(orders)
          /\ orders[req'[r].target].status = "cancelled"
          /\ req'[r].http # 500)
         => /\ orders' = orders
            /\ req'[r].http = 200
            /\ req'[r].prior = "cancelled"
            /\ IF amqp = "conn"
               THEN /\ req'[r].pub.calls = 1 /\ req'[r].pub.key = ORDER_CANCELLED
                    /\ req'[r].pub.payload = <<orders[req'[r].target]>>
               ELSE req'[r].pub = NoPublish
    ]_vars

C29_Witness ==
  \E r \in Reqs : /\ req[r].kind = "patch" /\ req[r].prior = "cancelled"
                  /\ req[r].http = 200 /\ req[r].pub.calls = 1 /\ ~req[r].pub.threw
                  /\ req[r].pub.key = ORDER_CANCELLED
                  /\ orders[req[r].target].status = "cancelled"

====
